---- MODULE Spec2Model ----
(***************************************************************************)
(* A model of bubobox/parse-js: the ArrayTransformer (array.js lines 1-62),*)
(* the parsers array, multilingual and groupingMultilingual (array.js      *)
(* lines 64-279) and the descriptor factory (part_000).                    *)
(*                                                                         *)
(* JavaScript strings are sequences of one-character strings, so that      *)
(* JSON.parse, JSON.stringify, split, join and string conversion are       *)
(* computed character by character.  JavaScript values are tagged records. *)
(***************************************************************************)
EXTENDS Integers, Sequences, FiniteSets, TLC

VARIABLES inst, options, input, call

vars == <<inst, options, input, call>>

(***************************************************************************)
(* Bounds of the model.                                                    *)
(***************************************************************************)
\* longest string handed to parse() and to the array coercer
MaxLen == 3
\* longest list handed to reverse()
MaxList == 2

(***************************************************************************)
(* JavaScript values.                                                      *)
(***************************************************************************)
Str(s) == [t |-> "string", s |-> s]
Num(n) == [t |-> "number", n |-> n]
Bool(b) == [t |-> "boolean", b |-> b]
Null == [t |-> "null"]
Undefined == [t |-> "undefined"]
List(xs) == [t |-> "array", xs |-> xs]
\* an object: o maps its keys (strings) to their values
ObjOf(f) == [t |-> "object", o |-> f]
\* the object without keys, {}
Obj == ObjOf(<<>>)

\* lodash/isArray, _.isArray
isArray(v) == v.t = "array"
\* _.isString, typeof value === 'string'
isString(v) == v.t = "string"
\* _.isUndefined
isUndefined(v) == v.t = "undefined"

\* text written as a TLA+ tuple of characters
Text(w) == Str(w)

SeqsUpTo(S, n) == UNION {[1..k -> S] : k \in 0..n}

(***************************************************************************)
(* Number -> String and back (decimal integers).                           *)
(***************************************************************************)
Digits == <<"0", "1", "2", "3", "4", "5", "6", "7", "8", "9">>
DigitSet == {Digits[k] : k \in 1..10}
DigitOf(c) == CHOOSE d \in 0..9 : Digits[d + 1] = c

RECURSIVE NatToStr(_)
NatToStr(n) == IF n < 10 THEN <<Digits[n + 1]>>
               ELSE NatToStr(n \div 10) \o <<Digits[(n % 10) + 1]>>

NumToStr(n) == IF n < 0 THEN <<"-">> \o NatToStr(0 - n) ELSE NatToStr(n)

(***************************************************************************)
(* Array.prototype.join and the string conversion value + '' (ToString).   *)
(* An array converts to its elements joined on ','; null and undefined     *)
(* elements join as the empty string.                                      *)
(***************************************************************************)
RECURSIVE ToStr(_), JoinOn(_, _)

ToStr(v) ==
    CASE v.t = "string" -> v.s
      [] v.t = "number" -> NumToStr(v.n)
      [] v.t = "boolean" -> IF v.b THEN <<"t", "r", "u", "e">>
                            ELSE <<"f", "a", "l", "s", "e">>
      [] v.t = "null" -> <<"n", "u", "l", "l">>
      [] v.t = "undefined" -> <<"u", "n", "d", "e", "f", "i", "n", "e", "d">>
      [] v.t = "array" -> JoinOn(v.xs, <<",">>)
      [] v.t = "object" -> <<"[", "o", "b", "j", "e", "c", "t", " ",
                             "O", "b", "j", "e", "c", "t", "]">>

\* xs.join(sep), sep already a string
JoinOn(xs, sep) ==
    IF xs = <<>> THEN <<>>
    ELSE LET h == Head(xs)
             hs == IF h.t \in {"null", "undefined"} THEN <<>> ELSE ToStr(h)
         IN  IF Len(xs) = 1 THEN hs ELSE hs \o sep \o JoinOn(Tail(xs), sep)

(***************************************************************************)
(* String.prototype.split(sep) without a limit: the pieces between the     *)
(* successive non-overlapping occurrences of sep, scanned left to right.   *)
(* An empty separator splits into characters.                              *)
(***************************************************************************)
MatchAt(s, q, sep) ==
    /\ q + Len(sep) - 1 <= Len(s)
    /\ \A k \in 1..Len(sep) : s[q + k - 1] = sep[k]

RECURSIVE SplitFrom(_, _, _, _)
\* p: start of the current piece, q: scan position
SplitFrom(s, sep, p, q) ==
    IF q > Len(s) THEN <<Str(SubSeq(s, p, Len(s)))>>
    ELSE IF MatchAt(s, q, sep)
         THEN <<Str(SubSeq(s, p, q - 1))>>
                  \o SplitFrom(s, sep, q + Len(sep), q + Len(sep))
         ELSE SplitFrom(s, sep, p, q + 1)

Split(s, sep) ==
    IF sep = <<>> THEN List([k \in 1..Len(s) |-> Str(<<s[k]>>)])
    ELSE List(SplitFrom(s, sep, 1, 1))

(***************************************************************************)
(* JSON.parse(text): a recursive-descent reading of the JSON grammar.      *)
(* The result is [ok |-> TRUE, v |-> value] or [ok |-> FALSE] where        *)
(* JSON.parse throws a SyntaxError.  Objects, fractions, exponents and the *)
(* escapes other than \" \\ \/ need characters that no text of the model   *)
(* contains.                                                               *)
(***************************************************************************)
JsonWs == {" "}

RECURSIVE SkipWs(_, _)
SkipWs(s, i) == IF i <= Len(s) /\ s[i] \in JsonWs THEN SkipWs(s, i + 1) ELSE i

Fail == [ok |-> FALSE, v |-> Null, i |-> 0]
Ok(v, i) == [ok |-> TRUE, v |-> v, i |-> i]

RECURSIVE ParseDigits(_, _, _)
\* the digits from position i on, as a number; acc is the value so far
ParseDigits(s, i, acc) ==
    IF i <= Len(s) /\ s[i] \in DigitSet
    THEN ParseDigits(s, i + 1, acc * 10 + DigitOf(s[i]))
    ELSE [n |-> acc, i |-> i]

\* number = -? (0 | [1-9][0-9]*)
ParseNumber(s, i) ==
    LET neg == s[i] = "-"
        j == IF neg THEN i + 1 ELSE i
    IN  IF j > Len(s) \/ s[j] \notin DigitSet THEN Fail
        ELSE IF s[j] = "0" THEN Ok(Num(0), j + 1)
        ELSE LET d == ParseDigits(s, j, 0)
             IN  Ok(Num(IF neg THEN 0 - d.n ELSE d.n), d.i)

RECURSIVE ParseString(_, _, _)
\* i: the position after the opening quote; acc: the characters read so far
ParseString(s, i, acc) ==
    IF i > Len(s) THEN Fail
    ELSE IF s[i] = "\"" THEN Ok(Str(acc), i + 1)
    ELSE IF s[i] = "\\"
         THEN IF i + 1 <= Len(s) /\ s[i + 1] \in {"\"", "\\", "/"}
              THEN ParseString(s, i + 2, Append(acc, s[i + 1]))
              ELSE Fail
    ELSE ParseString(s, i + 1, Append(acc, s[i]))

Literals == { [w |-> <<"n", "u", "l", "l">>, v |-> Null],
              [w |-> <<"t", "r", "u", "e">>, v |-> Bool(TRUE)],
              [w |-> <<"f", "a", "l", "s", "e">>, v |-> Bool(FALSE)] }

RECURSIVE ParseValue(_, _), ParseElems(_, _, _, _)

ParseValue(s, i) ==
    IF i > Len(s) THEN Fail
    ELSE IF s[i] = "[" THEN ParseElems(s, SkipWs(s, i + 1), <<>>, TRUE)
    ELSE IF s[i] = "\"" THEN ParseString(s, i + 1, <<>>)
    ELSE IF s[i] = "-" \/ s[i] \in DigitSet THEN ParseNumber(s, i)
    ELSE IF \E l \in Literals : MatchAt(s, i, l.w)
         THEN LET l == CHOOSE l \in Literals : MatchAt(s, i, l.w)
              IN  Ok(l.v, i + Len(l.w))
    ELSE Fail

\* the elements of an array from position i (after '[' and white space) on
ParseElems(s, i, acc, first) ==
    IF i > Len(s) THEN Fail
    ELSE IF first /\ s[i] = "]" THEN Ok(List(acc), i + 1)
    ELSE LET r == ParseValue(s, i)
             j == SkipWs(s, r.i)
         IN  IF ~r.ok \/ j > Len(s) THEN Fail
             ELSE IF s[j] = "," THEN ParseElems(s, SkipWs(s, j + 1), Append(acc, r.v), FALSE)
             ELSE IF s[j] = "]" THEN Ok(List(Append(acc, r.v)), j + 1)
             ELSE Fail

JSONparse(s) ==
    LET r == ParseValue(s, SkipWs(s, 1))
    IN  IF r.ok /\ SkipWs(s, r.i) = Len(s) + 1
        THEN [ok |-> TRUE, v |-> r.v]
        ELSE [ok |-> FALSE, v |-> Null]

(***************************************************************************)
(* JSON.stringify(value) of an array: elements in brackets, joined on ','. *)
(* Strings are quoted with " and \ escaped; undefined elements and plain   *)
(* objects without content encode as null and {}.                          *)
(***************************************************************************)
\* a string encoder that escapes nothing
QuoteNothing(s) == s

RECURSIVE Quote(_)
Quote(s) ==
    IF s = <<>> THEN <<>>
    ELSE (IF Head(s) \in {"\"", "\\"} THEN <<"\\", Head(s)>> ELSE <<Head(s)>>)
             \o Quote(Tail(s))

RECURSIVE JSONstringify(_), StringifyElems(_)

JSONstringify(v) ==
    CASE v.t = "string" -> <<"\"">> \o Quote(v.s) \o <<"\"">>
      [] v.t = "number" -> NumToStr(v.n)
      [] v.t = "boolean" -> ToStr(v)
      [] v.t = "null" -> ToStr(Null)
      [] v.t = "undefined" -> ToStr(Null)
      [] v.t = "object" -> <<"{", "}">>   \* the lists of the model hold no other object
      [] v.t = "array" -> <<"[">> \o StringifyElems(v.xs) \o <<"]">>

StringifyElems(xs) ==
    IF xs = <<>> THEN <<>>
    ELSE IF Len(xs) = 1 THEN JSONstringify(Head(xs))
    ELSE JSONstringify(Head(xs)) \o <<",">> \o StringifyElems(Tail(xs))

(***************************************************************************)
(* JavaScript truthiness and a || b.                                       *)
(***************************************************************************)
Truthy(v) ==
    CASE v.t = "string" -> v.s # <<>>
      [] v.t = "number" -> v.n # 0
      [] v.t = "boolean" -> v.b
      [] v.t \in {"null", "undefined"} -> FALSE
      [] OTHER -> TRUE

OrElse(a, b) == IF Truthy(a) THEN a ELSE b

(***************************************************************************)
(* ArrayTransformer.                                                       *)
(***************************************************************************)
MODE_ANY == Text(<<"A", "N", "Y">>)
MODE_JSON == Text(<<"J", "S", "O", "N">>)
MODE_SEPARATOR == Text(<<"S", "E", "P", "A", "R", "A", "T", "O", "R">>)
Modes == {MODE_ANY, MODE_JSON, MODE_SEPARATOR}

NoInst == [t |-> "none"]
NoCall == [op |-> "none"]
NoValue == [t |-> "none"]

\* parseJSON(str): the decoded value, null where JSON.parse throws
parseJSON(str) == LET r == JSONparse(str.s) IN IF r.ok THEN r.v ELSE Null

\* the body of the constructor under new: this._mode, this._separator
Construct(opts) ==
    [_mode |-> OrElse(opts.mode, MODE_ANY),
     _separator |-> OrElse(opts.separator, Text(<<",">>))]

\* parse without line 40-41: a decoded value that is no list is kept
parseKeepsNonList(this, value) ==
    IF isArray(value) THEN value
    ELSE LET str == IF ~isString(value) THEN Str(ToStr(value)) ELSE value
             result1 == IF this._mode = MODE_JSON \/ this._mode = MODE_ANY
                        THEN parseJSON(str) ELSE value
         IN  IF this._mode = MODE_SEPARATOR
                  \/ (this._mode = MODE_ANY /\ ~Truthy(result1))
             THEN Split(str.s, ToStr(this._separator))
             ELSE result1

\* ArrayTransformer.prototype.parse, as a function of this and value
parse(this, value) ==
    IF isArray(value) THEN value
    ELSE LET result0 == value
             str == IF ~isString(value) THEN Str(ToStr(value)) ELSE value
             result1 == IF this._mode = MODE_JSON \/ this._mode = MODE_ANY
                        THEN parseJSON(str) ELSE result0
             result2 == IF ~isArray(result1) THEN Null ELSE result1
         IN  IF this._mode = MODE_SEPARATOR
                  \/ (this._mode = MODE_ANY /\ ~Truthy(result2))
             THEN Split(str.s, ToStr(this._separator))
             ELSE result2

\* reverse with the test of line 53 narrowed to MODE_JSON
reverseJsonOnly(this, value) ==
    IF ~isArray(value) THEN value
    ELSE IF this._mode = MODE_JSON
         THEN Str(JSONstringify(value))
    ELSE Str(JoinOn(value.xs, ToStr(this._separator)))

\* ArrayTransformer.prototype.reverse, as a function of this and value
reverse(this, value) ==
    IF ~isArray(value) THEN value
    ELSE IF this._mode = MODE_JSON \/ this._mode = MODE_ANY
         THEN Str(JSONstringify(value))
    ELSE IF this._mode = MODE_SEPARATOR
         THEN Str(JoinOn(value.xs, ToStr(this._separator)))
    ELSE value

(***************************************************************************)
(* Inputs.                                                                 *)
(***************************************************************************)
Chars == {"a", ",", "[", "]", "\"", "1", " "}
Strings == {Str(w) : w \in SeqsUpTo(Chars, MaxLen)}
Scalars == {Null, Undefined, Num(0), Num(12), Bool(TRUE), Obj}

\* the options objects handed to the constructor; undefined is an absent key
OptionModes == Modes \cup {Undefined, Text(<<"X", "M", "L">>)}
OptionSeparators == {Undefined, Text(<<",">>), Text(<<"a">>), Text(<<"a", "a">>), Num(1)}
Options == [mode : OptionModes, separator : OptionSeparators]
               \cup {[mode |-> Text(<<>>), separator |-> Text(<<>>)]}

\* the elements of the lists handed to reverse
Elems == {Str(w) : w \in SeqsUpTo({"a", ",", "\"", "1"}, 1)}
             \cup {Text(<<"a", "a">>), Num(1), Null}
Lists == {List(xs) : xs \in SeqsUpTo(Elems, MaxList)}
             \cup {List(<<List(<<>>)>>), List(<<List(<<Text(<<"a">>)>>), Undefined>>)}

Values == Strings \cup Scalars \cup Lists

(***************************************************************************)
(* The transformer as a state machine.  options is the argument of the     *)
(* constructor and input a value the caller holds; inst is the constructed *)
(* object and call the last call made.  parse and reverse are called on    *)
(* input or on the result of the call before.                              *)
(***************************************************************************)
Init ==
    /\ inst = NoInst
    /\ options \in Options
    /\ input \in Values
    /\ call = NoCall

\* new ArrayTransformer(options)
New ==
    /\ inst = NoInst
    /\ inst' = Construct(options)
    /\ call' = [op |-> "new", arg |-> options]
    /\ UNCHANGED <<options, input>>

\* ArrayTransformer(options), a plain call: this is undefined (strict code)
\* or the global object; neither has a transform method, so line 17
\* constructs a transformer and then throws a TypeError
PlainCall(this) ==
    /\ inst = NoInst
    /\ call.op = "none"
    /\ call' = [op |-> "call", arg |-> options, this |-> this,
                made |-> Construct(options),
                threw |-> IF this.t = "object"
                          THEN "TypeError: this.transform is not a function"
                          ELSE "TypeError: Cannot read properties of undefined",
                res |-> NoValue]
    /\ UNCHANGED <<inst, options, input>>

\* the values a call is made on
Args == {input} \cup (IF call.op \in {"parse", "reverse"} THEN {call.res} ELSE {})

\* parse with the comparison of line 43 written as an assignment
ParseAssigning(value) ==
    /\ inst # NoInst
    /\ inst' = [inst EXCEPT !._mode = MODE_SEPARATOR]
    /\ call' = [op |-> "parse", arg |-> value,
                res |-> parse([inst EXCEPT !._mode = MODE_SEPARATOR], value),
                from |-> NoValue]
    /\ UNCHANGED <<options, input>>

\* transformer.parse(value); from is the list value was the reverse of
Parse(value) ==
    /\ inst # NoInst
    /\ call' = [op |-> "parse", arg |-> value, res |-> parse(inst, value),
                from |-> IF call.op = "reverse" /\ call.res = value /\ isArray(call.arg)
                         THEN call.arg ELSE NoValue]
    /\ UNCHANGED <<inst, options, input>>

\* transformer.reverse(value)
Reverse(value) ==
    /\ inst # NoInst
    /\ call' = [op |-> "reverse", arg |-> value, res |-> reverse(inst, value)]
    /\ UNCHANGED <<inst, options, input>>

Next ==
    \/ New
    \/ \E this \in {Undefined, Obj} : PlainCall(this)
    \/ \E value \in Args : Parse(value)
    \/ \E value \in Args : Reverse(value)

Spec == Init /\ [][Next]_vars
(***************************************************************************)
(* The parsers of array.js lines 64-279.  A function value is a record     *)
(* naming the function; Apply calls it.                                    *)
(***************************************************************************)
Fn(name) == [t |-> "function", name |-> name]
\* _.isFunction
isFunction(v) == v.t = "function"

\* string(value), lines 90-92
string(value) == IF isUndefined(value) \/ value = Null THEN Text(<<>>)
                 ELSE Str(ToStr(value))

\* json(value), lines 272-278: undefined where JSON.parse throws
json(value) == LET r == JSONparse(ToStr(value)) IN IF r.ok THEN r.v ELSE Undefined

\* a call of the function value fn on one argument
Apply(fn, v) ==
    CASE fn.name = "string" -> string(v)
      [] fn.name = "json" -> json(v)
      [] fn.name = "identity" -> v

RECURSIVE TrimLeft(_), TrimRight(_)
TrimLeft(s) == IF s # <<>> /\ Head(s) \in JsonWs THEN TrimLeft(Tail(s)) ELSE s
TrimRight(s) == IF s # <<>> /\ s[Len(s)] \in JsonWs
                THEN TrimRight(SubSeq(s, 1, Len(s) - 1)) ELSE s
\* trim of ./utils: the string without its leading and trailing white space
trim(s) == TrimRight(TrimLeft(s))

\* the path engine's parse(path, fn, data) on a one-segment path: the value
\* read at the segment, handed to fn
DriverParse(fn, sub) == Apply(fn, sub)

\* lines 152-155: result.map throws a TypeError on a result that is no array
MapElements(result, valueParser) ==
    IF ~isFunction(valueParser) THEN [threw |-> "none", v |-> result]
    ELSE IF ~isArray(result) THEN [threw |-> "TypeError", v |-> NoValue]
    ELSE [threw |-> "none",
          v |-> List([k \in 1..Len(result.xs) |-> DriverParse(valueParser, result.xs[k])])]

\* array without lines 145-146: decoded JSON that is no array is kept
arrayKeepsNonArray(value, valueParser) ==
    LET parsed == JSONparse(ToStr(value))
        validJson == parsed.ok
        result1 == IF validJson THEN parsed.v ELSE List(<<>>)
        result3 == IF ~validJson /\ isString(value) /\ Len(trim(value.s)) # 0
                   THEN Split(value.s, <<",">>) ELSE result1
    IN  MapElements(result3, valueParser)

\* array(value, valueParser), lines 134-156; the catch of line 140 takes the
\* SyntaxError of JSON.parse
array(value, valueParser) ==
    LET parsed == JSONparse(ToStr(value))
        validJson == parsed.ok
        result1 == IF validJson THEN parsed.v ELSE List(<<>>)
        result2 == IF validJson /\ ~isArray(result1) THEN List(<<>>) ELSE result1
        result3 == IF ~validJson /\ isString(value) /\ Len(trim(value.s)) # 0
                   THEN Split(value.s, <<",">>) ELSE result2
    IN  MapElements(result3, valueParser)

\* what the array coercer is called on
ArrayValues == Strings \cup Scalars
                   \cup {List(<<>>), List(<<Num(1), Num(2)>>),
                         List(<<Text(<<"[", "1", "]">>)>>), List(<<List(<<Num(1)>>)>>)}
ValueParsers == {Undefined, Fn("string"), Fn("json"), Text(<<"a">>)}

InitArray ==
    /\ inst = NoInst
    /\ options = NoValue
    /\ input \in [value : ArrayValues, valueParser : ValueParsers]
    /\ call = NoCall

\* a call of the array coercer on the input
CallArray ==
    /\ call.op = "none"
    /\ LET r == array(input.value, input.valueParser)
       IN  call' = [op |-> "array", arg |-> input, res |-> r.v, threw |-> r.threw]
    /\ UNCHANGED <<inst, options, input>>

SpecArray == InitArray /\ [][CallArray]_vars

(***************************************************************************)
(* multilingual and groupingMultilingual, lines 171-217.                   *)
(***************************************************************************)
CAMELCASE == Text(<<"c", "a", "m", "e", "l", "C", "a", "s", "e">>)
UNDERSCORE == Text(<<"u", "n", "d", "e", "r", "s", "c", "o", "r", "e">>)

Lower == <<"a", "b", "c", "d", "e", "f", "g", "h", "i", "j", "k", "l", "m",
           "n", "o", "p", "q", "r", "s", "t", "u", "v", "w", "x", "y", "z">>
Upper == <<"A", "B", "C", "D", "E", "F", "G", "H", "I", "J", "K", "L", "M",
           "N", "O", "P", "Q", "R", "S", "T", "U", "V", "W", "X", "Y", "Z">>
ToUpper(c) == IF \E k \in 1..26 : Lower[k] = c
              THEN Upper[CHOOSE k \in 1..26 : Lower[k] = c] ELSE c

\* ucfirst of ./utils: the string with its first character in upper case
ucfirst(s) == IF s = <<>> THEN s ELSE <<ToUpper(Head(s))>> \o Tail(s)
\* prefixUnderscore, line 72
prefixUnderscore(s) == <<"_">> \o s

\* languageTransform of lines 172 and 194; an undefined parseType takes the
\* default CAMELCASE
languageTransform(parseType, lang) ==
    IF (IF isUndefined(parseType) THEN CAMELCASE ELSE parseType) = CAMELCASE
    THEN ucfirst(lang) ELSE prefixUnderscore(lang)

\* the path resolver's read of one key of data
Get(data, key) ==
    IF data.t = "object" /\ key \in DOMAIN data.o THEN data.o[key] ELSE Undefined

\* the keys of data, _(data).keys()
KeysOf(data) == IF data.t = "object" THEN DOMAIN data.o ELSE {}

RECURSIVE LastSegment(_)
\* /[^\.]+$/.exec(path): the longest suffix of path without a dot; the
\* empty string stands for the null of a failed match
LastSegment(path) ==
    IF path = <<>> \/ path[Len(path)] = "." THEN <<>>
    ELSE LastSegment(SubSeq(path, 1, Len(path) - 1)) \o <<path[Len(path)]>>

\* the parser of line 173 around valueParser (the identity by default)
Guarded(valueParser, v) ==
    IF isUndefined(v) THEN Undefined
    ELSE IF isUndefined(valueParser) THEN v
    ELSE Apply(valueParser, v)

\* the values object of lines 176-184 for a prefix
LanguageValues(data, prefix, valueParser, parseType, languages) ==
    LET value(lang) == Guarded(valueParser,
                               Get(data, prefix \o languageTransform(parseType, lang)))
        present == {languages[k] : k \in {j \in 1..Len(languages) :
                                             ~isUndefined(value(languages[j]))}}
    IN  ObjOf([lang \in present |-> value(lang)])

\* multilingual that stores the value of every language, undefined or not
multilingualStoresAll(data, path, valueParser, parseType, languages) ==
    IF LastSegment(path) = <<>>
    THEN [threw |-> "TypeError", v |-> NoValue]
    ELSE [threw |-> "none",
          v |-> ObjOf([lang \in {languages[k] : k \in 1..Len(languages)} |->
                          Guarded(valueParser,
                                  Get(data, LastSegment(path)
                                                \o languageTransform(parseType, lang)))])]

\* multilingual(data, path, valueParser, parseType, languages), lines
\* 171-185; line 174 throws a TypeError where the path has no last segment
multilingual(data, path, valueParser, parseType, languages) ==
    IF LastSegment(path) = <<>>
    THEN [threw |-> "TypeError", v |-> NoValue]
    ELSE [threw |-> "none",
          v |-> LanguageValues(data, LastSegment(path), valueParser, parseType, languages)]

\* the suffixes the regex of line 195 alternates over; without languages the
\* alternation is empty and matches the empty suffix
Suffixes(parseType, languages) ==
    IF languages = <<>> THEN {<<>>}
    ELSE {languageTransform(parseType, languages[k]) : k \in 1..Len(languages)}

\* regex.exec(key)[1] of line 198: the match starts at the leftmost
\* position it can and ([^\.]+) is greedy, so group 1 is the longest run
\* without a dot that is followed by a suffix and the end of the key; the
\* empty string stands for no match
RegexPrefix(key, suffixes) ==
    LET fits(i, j) == /\ i <= j
                      /\ \A k \in i..j : key[k] # "."
                      /\ SubSeq(key, j + 1, Len(key)) \in suffixes
        starts == {i \in 1..Len(key) : \E j \in i..Len(key) : fits(i, j)}
    IN  IF starts = {} THEN <<>>
        ELSE LET i == CHOOSE i \in starts : \A i2 \in starts : i <= i2
                 j == CHOOSE j \in i..Len(key) :
                          fits(i, j) /\ \A j2 \in i..Len(key) : fits(i, j2) => j2 <= j
             IN  SubSeq(key, i, j)

\* groupingMultilingual with lines 208-213 in the other order: the regular
\* keys first, the groups written over them
groupingGroupsLast(data, path, valueParser, parseType, languages) ==
    LET suffixes == Suffixes(parseType, languages)
        multilingualKeys == {RegexPrefix(key, suffixes) : key \in KeysOf(data)} \ {<<>>}
        regularKeys == {key \in KeysOf(data) : RegexPrefix(key, suffixes) = <<>>} \ {<<>>}
    IN  ObjOf([k \in multilingualKeys \cup regularKeys |->
                  IF k \in multilingualKeys
                  THEN multilingual(data, k, valueParser, parseType, languages).v
                  ELSE data.o[k]])

\* groupingMultilingual(data, path, valueParser, parseType, languages),
\* lines 193-216: the groups of the prefixes first, then the regular keys
\* written over them
groupingMultilingual(data, path, valueParser, parseType, languages) ==
    LET suffixes == Suffixes(parseType, languages)
        multilingualKeys == {RegexPrefix(key, suffixes) : key \in KeysOf(data)} \ {<<>>}
        regularKeys == {key \in KeysOf(data) : RegexPrefix(key, suffixes) = <<>>} \ {<<>>}
    IN  ObjOf([k \in multilingualKeys \cup regularKeys |->
                  IF k \in regularKeys THEN data.o[k]
                  ELSE multilingual(data, k, valueParser, parseType, languages).v])

\* the source objects: every choice of some of these keys and values
DataKeys == { <<"t", "i", "t", "l", "e", "N", "l">>,
              <<"t", "i", "t", "l", "e", "F", "r">>,
              <<"t", "i", "t", "l", "e", "_", "n", "l">>,
              <<"t", "i", "t", "l", "e">>,
              <<"a", "b", "c">> }
DataValues == {Text(<<"x">>), Text(<<"1">>), Undefined}
DataObjects == UNION {{ObjOf(f) : f \in [ks -> DataValues]} : ks \in SUBSET DataKeys}

Paths == { <<"t", "i", "t", "l", "e">>,
           <<"a", ".", "t", "i", "t", "l", "e">>,
           <<>> }
ParseTypes == {Undefined, CAMELCASE, UNDERSCORE}
LanguageLists == { <<>>, <<<<"n", "l">>, <<"f", "r">>>>, <<<<"f", "r">>>> }

InitMultilingual ==
    /\ inst = NoInst
    /\ options = NoValue
    /\ input \in [data : DataObjects \cup {Undefined}, path : Paths,
                  valueParser : {Undefined, Fn("string"), Fn("json")},
                  parseType : ParseTypes, languages : LanguageLists]
    /\ call = NoCall

\* a call of multilingual on the input
CallMultilingual ==
    /\ call.op = "none"
    /\ LET r == multilingual(input.data, input.path, input.valueParser,
                             input.parseType, input.languages)
       IN  call' = [op |-> "multilingual", arg |-> input, res |-> r.v, threw |-> r.threw]
    /\ UNCHANGED <<inst, options, input>>

\* a call of groupingMultilingual on the input
CallGrouping ==
    /\ call.op = "none"
    /\ call' = [op |-> "groupingMultilingual", arg |-> input,
                res |-> groupingMultilingual(input.data, input.path, input.valueParser,
                                             input.parseType, input.languages),
                threw |-> "none"]
    /\ UNCHANGED <<inst, options, input>>

NextMultilingual == CallMultilingual \/ CallGrouping

SpecMultilingual == InitMultilingual /\ [][NextMultilingual]_vars

(***************************************************************************)
(* The descriptor factory of part_000.  A descriptor is the record of the  *)
(* properties createParser and createReverse set on the function they      *)
(* return, with the transform and the fixed arguments its closure binds.   *)
(***************************************************************************)
\* the nestsResult flag the parsers declare: lines 186 and 217 both set it
\* on multilingual, no line sets it on another parser
ParserNestsResult(parser) ==
    IF parser = "multilingual" THEN Bool(TRUE) ELSE Undefined

\* the flags of the reversers of ./reversers
ReverserFlags(reverser) ==
    [nestsResult |-> Undefined,
     insertsParent |-> IF reverser = "matchPrefixStrip" THEN Bool(TRUE) ELSE Undefined]

\* realPath of ./utils, applied to key
realPath(key) == [t |-> "realPath", of |-> key]

\* createParser(path, parser, ...args), lines 17-22
createParser(path, parser, args) ==
    [path |-> path,
     nestsResult |-> OrElse(ParserNestsResult(parser), Bool(FALSE)),
     fn |-> parser,
     args |-> args]

\* createReverse with line 31 left out
createReverseNoPath(path, reverser, args) ==
    [path |-> Undefined,
     nestsResult |-> OrElse(ReverserFlags(reverser).nestsResult, Bool(FALSE)),
     insertsParent |-> OrElse(ReverserFlags(reverser).insertsParent, Bool(FALSE)),
     fn |-> reverser,
     args |-> args]

\* createReverse(path, reverser, ...args), lines 29-35
createReverse(path, reverser, args) ==
    [path |-> path,
     nestsResult |-> OrElse(ReverserFlags(reverser).nestsResult, Bool(FALSE)),
     insertsParent |-> OrElse(ReverserFlags(reverser).insertsParent, Bool(FALSE)),
     fn |-> reverser,
     args |-> args]

\* f with f.reverse = r; NoValue is a descriptor without reverse
WithReverse(f, r) == [path |-> f.path, nestsResult |-> f.nestsResult, fn |-> f.fn,
                      args |-> f.args, reverse |-> r]

\* a default parameter value: taken when the argument is undefined
Default(a, d) == IF isUndefined(a) THEN d ELSE a

AVAILABLE_LANGUAGES ==
    List(<<Text(<<"e", "n">>), Text(<<"n", "l">>), Text(<<"f", "r">>)>>)

\* matchKey(path, key), lines 38-40
factoryMatchKey(path, key) ==
    WithReverse(createParser(path, "matchKey", <<key>>), NoValue)

\* matchPrefixStrip(path, key, restoreCamelCase = true), lines 43-47
factoryMatchPrefixStrip(path, key, restoreCamelCase) ==
    WithReverse(createParser(path, "matchPrefixStrip", <<key>>),
                createReverse(path, "matchPrefixStrip",
                              <<realPath(key), Default(restoreCamelCase, Bool(TRUE))>>))

\* boolean(path, defaultValue), lines 50-54
factoryBoolean(path, defaultValue) ==
    WithReverse(createParser(path, "boolean", <<defaultValue>>),
                createReverse(path, "boolean", <<>>))

\* equals(path, shouldEqual, notEqualReverseValue = undefined), lines 57-61
factoryEquals(path, shouldEqual, notEqualReverseValue) ==
    WithReverse(createParser(path, "equals", <<shouldEqual>>),
                createReverse(path, "equals", <<shouldEqual, notEqualReverseValue>>))

\* number(path, NaNValue = 0), lines 64-68
factoryNumber(path, NaNValue) ==
    WithReverse(createParser(path, "number", <<Default(NaNValue, Num(0))>>),
                createReverse(path, "number", <<Default(NaNValue, Num(0))>>))

\* date(path, nowOnInvalid = false), lines 72-76
factoryDate(path, nowOnInvalid) ==
    WithReverse(createParser(path, "date", <<Default(nowOnInvalid, Bool(FALSE))>>),
                createReverse(path, "date", <<>>))

\* array(path, valueParser), lines 79-83
factoryArray(path, valueParser) ==
    WithReverse(createParser(path, "array", <<valueParser>>),
                createReverse(path, "array", <<>>))

\* string(path), lines 86-88
factoryString(path) ==
    WithReverse(createParser(path, "string", <<>>), NoValue)

\* multilingual(path, valueParser, group = false, parseType = null,
\* languages = null), lines 91-102; typeDefault is multilingual.TYPE_DEFAULT
\* and multilingual.CAMELCASE is a property no line sets
factoryMultilingual(path, valueParser, group, parseType, languages, typeDefault) ==
    LET grouped == Truthy(Default(group, Bool(FALSE)))
        parser == IF grouped THEN "groupingMultilingual" ELSE "multilingual"
        reverser == IF grouped THEN "groupingMultilingual" ELSE "multilingual"
        type == OrElse(Default(parseType, Null), OrElse(typeDefault, Undefined))
        lang == OrElse(Default(languages, Null), AVAILABLE_LANGUAGES)
    IN  WithReverse(createParser(path, parser, <<path, valueParser, type, lang>>),
                    createReverse(path, reverser, <<type, lang>>))

\* base64(path, valueParser), lines 105-109
factoryBase64(path, valueParser) ==
    WithReverse(createParser(path, "base64", <<valueParser>>),
                createReverse(path, "base64", <<>>))

\* json(path, valueParser), lines 112-116
factoryJson(path, valueParser) ==
    WithReverse(createParser(path, "json", <<valueParser>>),
                createReverse(path, "json", <<>>))

Kinds == {"matchKey", "matchPrefixStrip", "boolean", "equals", "number", "date",
          "array", "string", "multilingual", "base64", "json"}

\* the arguments after path, and the configured multilingual.TYPE_DEFAULT
FactoryInputs ==
    [kind : Kinds,
     path : {Str(w) : w \in Paths},
     a1 : {Undefined, Fn("string"), Text(<<"f", "o", "o">>), Num(7)},
     a2 : {Undefined, Bool(TRUE), Bool(FALSE)},
     a3 : {Undefined, CAMELCASE, UNDERSCORE},
     a4 : {Undefined, List(<<Text(<<"n", "l">>), Text(<<"f", "r">>)>>)},
     typeDefault : {Undefined, UNDERSCORE}]

InitFactory ==
    /\ inst = NoInst
    /\ options = NoValue
    /\ input \in FactoryInputs
    /\ call = NoCall

\* the call of the factory function input names, on the arguments it takes
Made(in) ==
    CASE in.kind = "matchKey" -> factoryMatchKey(in.path, in.a1)
      [] in.kind = "matchPrefixStrip" -> factoryMatchPrefixStrip(in.path, in.a1, in.a2)
      [] in.kind = "boolean" -> factoryBoolean(in.path, in.a1)
      [] in.kind = "equals" -> factoryEquals(in.path, in.a1, in.a2)
      [] in.kind = "number" -> factoryNumber(in.path, in.a1)
      [] in.kind = "date" -> factoryDate(in.path, in.a2)
      [] in.kind = "array" -> factoryArray(in.path, in.a1)
      [] in.kind = "string" -> factoryString(in.path)
      [] in.kind = "multilingual" ->
             factoryMultilingual(in.path, in.a1, in.a2, in.a3, in.a4, in.typeDefault)
      [] in.kind = "base64" -> factoryBase64(in.path, in.a1)
      [] in.kind = "json" -> factoryJson(in.path, in.a1)

CallFactory ==
    /\ call.op = "none"
    /\ call' = [op |-> "factory", arg |-> input, res |-> Made(input)]
    /\ UNCHANGED <<inst, options, input>>

SpecFactory == InitFactory /\ [][CallFactory]_vars

(***************************************************************************)
(* Claims about the ArrayTransformer, checked under Spec.                  *)
(***************************************************************************)
IsFalsy(v) == v \in {Undefined, Null, Text(<<>>), Num(0), Bool(FALSE)}

\* the text decodes as JSON, and to a list
DecodesToList(w) == JSONparse(w).ok /\ JSONparse(w).v.t = "array"

Contains(s, sep) == \E q \in 1..Len(s) : MatchAt(s, q, sep)

StringsOnly(xs) == \A k \in 1..Len(xs) : xs[k].t = "string"

\* C1: parse(value) in mode ANY, JSON or SEPARATOR returns a list input
\* itself; else, in JSON or ANY mode, the JSON-decoded value when the string
\* form of the input decodes to a list; else the string form split on the
\* separator in SEPARATOR mode, and in ANY mode when the JSON attempt gave no
\* list.  In ANY and SEPARATOR mode the result is always a list.
C1_ParseContract ==
    (call.op = "parse" /\ inst._mode \in Modes) =>
        LET v == call.arg
            w == ToStr(v)
            jsonMode == inst._mode \in {MODE_JSON, MODE_ANY}
        IN  /\ v.t = "array" => call.res = v
            /\ (v.t # "array" /\ jsonMode /\ DecodesToList(w)) => call.res = JSONparse(w).v
            /\ (v.t # "array" /\ (inst._mode = MODE_SEPARATOR
                                    \/ (inst._mode = MODE_ANY /\ ~DecodesToList(w))))
                   => call.res = Split(w, ToStr(inst._separator))
            /\ inst._mode \in {MODE_ANY, MODE_SEPARATOR} => call.res.t = "array"

\* C1 witness: in ANY mode the text [1] was parsed to the list of the number 1
C1_Witness ==
    /\ call.op = "parse"
    /\ inst._mode = MODE_ANY
    /\ call.arg = Text(<<"[", "1", "]">>)
    /\ call.res = List(<<Num(1)>>)

\* C2: reverse(value) returns a value that is no list unchanged in every
\* mode; a list gives its JSON encoding in JSON and ANY mode and its
\* elements joined on the separator in SEPARATOR mode.
C2_ReverseContract ==
    call.op = "reverse" =>
        /\ call.arg.t # "array" => call.res = call.arg
        /\ (call.arg.t = "array" /\ inst._mode \in {MODE_JSON, MODE_ANY})
               => call.res = Str(JSONstringify(call.arg))
        /\ (call.arg.t = "array" /\ inst._mode = MODE_SEPARATOR)
               => call.res = Str(JoinOn(call.arg.xs, ToStr(inst._separator)))

\* C2 witness: in ANY mode the list ["a", 1] was reversed to its JSON text
C2_Witness ==
    /\ call.op = "reverse"
    /\ inst._mode = MODE_ANY
    /\ call.arg = List(<<Text(<<"a">>), Num(1)>>)
    /\ call.res = Text(<<"[", "\"", "a", "\"", ",", "1", "]">>)

\* C7 as stated: whatever the options, the mode of a constructed transformer
\* is one of ANY, JSON, SEPARATOR, its separator is a string, and both equal
\* the values fixed at construction.
C7_Original ==
    inst # NoInst =>
        /\ inst._mode \in Modes
        /\ inst._separator.t = "string"
        /\ inst = Construct(options)

\* C7 amended: after any sequence of parse and reverse calls the mode and the
\* separator are the values fixed at construction: options.mode, or ANY when
\* that is absent or falsy, and options.separator, or ',' when that is absent
\* or falsy.  The mode is one of ANY, JSON, SEPARATOR when options.mode is
\* one of them or falsy, and the separator a string when options.separator
\* is a string or falsy: the constructor validates neither.
C7_FixedAtConstruction ==
    inst # NoInst =>
        /\ inst._mode = (IF IsFalsy(options.mode) THEN MODE_ANY ELSE options.mode)
        /\ inst._separator = (IF IsFalsy(options.separator) THEN Text(<<",">>)
                              ELSE options.separator)
        /\ (options.mode \in Modes \/ IsFalsy(options.mode)) => inst._mode \in Modes
        /\ (options.separator.t = "string" \/ IsFalsy(options.separator))
               => inst._separator.t = "string"

\* C7 witness: a transformer made with mode SEPARATOR and separator 'a' after
\* a reverse and then a parse of its result
C7_Witness ==
    /\ inst # NoInst
    /\ options = [mode |-> MODE_SEPARATOR, separator |-> Text(<<"a">>)]
    /\ call.op = "parse"
    /\ call.from # NoValue

\* C9: ArrayTransformer(options) called without new raises no exception and
\* yields a transformer with the mode and separator of new
\* ArrayTransformer(options).
C9_PlainCallConstructs ==
    call.op = "call" => (call.threw = "none" /\ call.res = Construct(call.arg))

\* C10 as stated: in every mode, for every separator and every list xs of
\* strings none of which contains the separator (the empty list included),
\* parse(reverse(xs)) is a list equal to xs.
C10_Original ==
    (/\ call.op = "parse"
     /\ call.from # NoValue
     /\ inst._mode \in Modes
     /\ StringsOnly(call.from.xs)
     /\ \A k \in 1..Len(call.from.xs) :
            ~Contains(call.from.xs[k].s, ToStr(inst._separator)))
        => call.res = call.from

\* C10 amended: as stated, provided that in SEPARATOR mode xs is not empty
\* and the separator is a single character.
C10_RoundTrip ==
    (/\ call.op = "parse"
     /\ call.from # NoValue
     /\ inst._mode \in Modes
     /\ StringsOnly(call.from.xs)
     /\ \A k \in 1..Len(call.from.xs) :
            ~Contains(call.from.xs[k].s, ToStr(inst._separator))
     /\ inst._mode = MODE_SEPARATOR
            => (call.from.xs # <<>> /\ Len(ToStr(inst._separator)) = 1))
        => call.res = call.from

\* C10 witness: in SEPARATOR mode with separator 'a' the list [",", ""] went
\* through reverse and parse
C10_Witness ==
    /\ call.op = "parse"
    /\ inst._mode = MODE_SEPARATOR
    /\ inst._separator = Text(<<"a">>)
    /\ call.from = List(<<Text(<<",">>), Text(<<>>)>>)
    /\ call.arg = Text(<<",", "a">>)
(***************************************************************************)
(* Claims about the array coercer, checked under SpecArray.                *)
(***************************************************************************)
\* the list the coercer builds before valueParser is mapped over it, from
\* the text the JSON attempt reads
BaseList(value, w) ==
    IF DecodesToList(w) THEN JSONparse(w).v
    ELSE IF ~JSONparse(w).ok /\ value.t = "string" /\ trim(value.s) # <<>>
         THEN Split(value.s, <<",">>)
    ELSE List(<<>>)

\* C3 as stated, for calls without a valueParser function: the result is
\* the decoded list when value is the text of a JSON array, value split on
\* ',' when JSON parsing fails and value is a string that is not blank, and
\* the empty list in every other case, any input that is no string included.
C3_Original ==
    (call.op = "array" /\ call.arg.valueParser.t # "function") =>
        /\ call.threw = "none"
        /\ call.res.t = "array"
        /\ call.res = (IF call.arg.value.t = "string"
                       THEN BaseList(call.arg.value, call.arg.value.s)
                       ELSE List(<<>>))

\* C3 amended: array never throws and always returns a list, built from the
\* string form of value: the decoded list when that text is a JSON array
\* (so the list ['[1]'], which is no string, gives [1]), value split on ','
\* when JSON parsing fails and value is a string that is not blank, the
\* empty list otherwise; when valueParser is a function every element is
\* replaced by valueParser's parse of it.
C3_ArrayCoercer ==
    call.op = "array" =>
        LET base == BaseList(call.arg.value, ToStr(call.arg.value))
            p == call.arg.valueParser
        IN  /\ call.threw = "none"
            /\ call.res.t = "array"
            /\ p.t # "function" => call.res = base
            /\ p.t = "function" =>
                   /\ Len(call.res.xs) = Len(base.xs)
                   /\ \A k \in 1..Len(base.xs) : call.res.xs[k] = Apply(p, base.xs[k])

\* C3 witness: the text 1 is valid JSON and no array, and gave the empty list
C3_Witness ==
    /\ call.op = "array"
    /\ call.arg.value = Text(<<"1">>)
    /\ call.res = List(<<>>)
(***************************************************************************)
(* Claims about multilingual and groupingMultilingual, checked under       *)
(* SpecMultilingual.                                                       *)
(***************************************************************************)
LangSet(languages) == {languages[k] : k \in 1..Len(languages)}

\* the suffix of a language as the claims word it
SuffixOf(parseType, lang) ==
    IF parseType \in {Undefined, CAMELCASE}
    THEN <<ToUpper(lang[1])>> \o Tail(lang) ELSE <<"_">> \o lang

EndsWith(key, suffix) ==
    /\ Len(key) > Len(suffix)
    /\ SubSeq(key, Len(key) - Len(suffix) + 1, Len(key)) = suffix

\* valueParser applied to a value, the identity when none is given
Parsed(valueParser, v) == IF valueParser.t = "function" THEN Apply(valueParser, v) ELSE v

\* the statement of C4 about one call: every key ending in the suffix of a
\* language is grouped as result[prefix][lang], every other key is copied
\* through as result[key] = data[key]
GroupsAndCopies(in, res) ==
    LET keys == DOMAIN in.data.o
        langOf(key) == {l \in LangSet(in.languages) :
                            EndsWith(key, SuffixOf(in.parseType, l))}
    IN  \A key \in keys :
            IF langOf(key) = {}
            THEN key \in DOMAIN res.o /\ res.o[key] = in.data.o[key]
            ELSE \A l \in langOf(key) :
                     LET prefix == SubSeq(key, 1, Len(key) - Len(SuffixOf(in.parseType, l)))
                         value == Parsed(in.valueParser, in.data.o[key])
                     IN  /\ prefix \in DOMAIN res.o
                         /\ res.o[prefix].t = "object"
                         /\ (in.data.o[key].t # "undefined" /\ value.t # "undefined")
                                => (l \in DOMAIN res.o[prefix].o /\ res.o[prefix].o[l] = value)

AfterLastDot(path) ==
    LET dots == {k \in 1..Len(path) : path[k] = "."}
    IN  IF dots = {} THEN path
        ELSE SubSeq(path, (CHOOSE k \in dots : \A d \in dots : d <= k) + 1, Len(path))

\* the value data holds for a language under the key of a path
Held(in, l) ==
    Get(in.data, AfterLastDot(in.path) \o SuffixOf(in.parseType, l))

Typed == {"number", "boolean", "date", "array", "base64", "json",
          "matchPrefixStrip", "multilingual"}

Among(a, args) == \E k \in 1..Len(args) : args[k] = a

\* the reverse descriptor is there, with the path of the parser descriptor
CarriesReverse(f) == f.reverse # NoValue /\ f.reverse.path = f.path

\* parse type and languages of multilingual and the prefix of
\* matchPrefixStrip are bound into the reverse descriptor
BindsIntoReverse(in, f) ==
    /\ in.kind = "multilingual" =>
           /\ Len(f.reverse.args) = 2
           /\ f.reverse.args[1] = f.args[3]
           /\ f.reverse.args[2] = f.args[4]
    /\ in.kind = "matchPrefixStrip" => Among(realPath(f.args[1]), f.reverse.args)

\* C6 as stated: every descriptor of a typed parser carries a reverse
\* descriptor with the same path, and the fixed arguments of the parser
\* (per-element parser of array, parse type and languages of multilingual,
\* prefix of matchPrefixStrip) are bound into the reverse descriptor too.
C6_Original ==
    (call.op = "factory" /\ call.arg.kind \in Typed) =>
        /\ CarriesReverse(call.res)
        /\ BindsIntoReverse(call.arg, call.res)
        /\ (call.arg.kind = "array" /\ call.arg.a1.t = "function")
               => Among(call.arg.a1, call.res.reverse.args)

\* C6 amended: every descriptor of a typed parser carries a reverse
\* descriptor with the same path; parse type and languages of multilingual
\* and the prefix of matchPrefixStrip (through realPath) are bound into the
\* reverse descriptor; the per-element parser of array is not: the reverse
\* descriptor of array binds no fixed argument.
C6_ReverseDescriptors ==
    (call.op = "factory" /\ call.arg.kind \in Typed) =>
        /\ CarriesReverse(call.res)
        /\ BindsIntoReverse(call.arg, call.res)
        /\ call.arg.kind = "array" => call.res.reverse.args = <<>>

\* C6 witness: a grouping multilingual descriptor whose reverse binds the
\* underscore convention and the languages nl, fr
C6_Witness ==
    /\ call.op = "factory"
    /\ call.arg.kind = "multilingual"
    /\ call.res.fn = "groupingMultilingual"
    /\ call.res.reverse.path = call.res.path
    /\ call.res.reverse.args =
           <<UNDERSCORE, List(<<Text(<<"n", "l">>), Text(<<"f", "r">>)>>)>>

\* C8: the descriptor of the multilingual factory has nestsResult = true
\* with group false and with group true, and the descriptors of number,
\* boolean, date, array, string, base64 and json have nestsResult = false.
C8_NestsResult ==
    call.op = "factory" =>
        /\ call.arg.kind = "multilingual" => call.res.nestsResult = Bool(TRUE)
        /\ call.arg.kind \in {"number", "boolean", "date", "array", "string",
                              "base64", "json"}
               => call.res.nestsResult = Bool(FALSE)
====
